---------------------------- MODULE Spec2Model ----------------------------
(***************************************************************************)
(* The Corelight processor of the ingest pipeline: a processor is built    *)
(* from a prefix and a tagger (NewCorelight / Config / init), and Process  *)
(* rewrites every JSON Corelight record of a batch as a Zeek TSV line.     *)
(*                                                                         *)
(* A payload ([]byte) is a sequence of lexemes.  A lexeme is a TLA+ string *)
(* that stands for the bytes it spells.  The bytes the code and the JSON   *)
(* decoder look for ('{', '"', the backslash escapes, white space, the     *)
(* characters of a number) are lexemes of their own, so bytes.IndexByte    *)
(* and the decoder see them wherever they occur; Join gives the Go string  *)
(* a sequence of lexemes spells.                                           *)
(***************************************************************************)
EXTENDS Integers, Sequences, FiniteSets, TLC

tagHeaders ==
  [ conn |->
      <<"ts", "uid", "id.orig_h", "id.orig_p", "id.resp_h", "id.resp_p", "proto", "service", "duration", "id.orig_ip_bytes", "id.resp_ip_bytes", "conn_state", "local_orig", "local_resp", "missed_bytes", "history", "id.orig_pkts", "id.orig_ip_bytes", "id.resp_pkts", "id.resp_ip_bytes", "tunnel_parents", "vlan">>,
    dhcp |->
      <<"ts", "uids", "client_addr", "server_addr", "mac", "host_name", "client_fqdn", "domain", "requested_addr", "assigned_addr", "lease_time", "client_message", "server_message", "msg_types", "duration">>,
    dns |->
      <<"ts", "uid", "id.orig_h", "id.orig_p", "id.resp_h", "id.resp_p", "proto", "trans_id", "rtt", "query", "qclass", "qclass_name", "qtype", "qtype_name", "rcode", "rcode_name", "AA", "TC", "RD", "RA", "Z", "answers", "TTLs", "rejected">>,
    files |->
      <<"ts", "fuid", "tx_hosts", "rx_hosts", "conn_uids", "source", "depth", "analyzers", "mime_type", "filename", "duration", "local_orig", "is_orig", "seen_bytes", "total_bytes", "missing_bytes", "overflow_bytes", "timedout", "parent_fuid", "md5", "sha1", "sha256", "extracted", "extracted_cutoff", "extracted_size">>,
    http |->
      <<"ts", "uid", "id.orig_h", "id.orig_p", "id.resp_h", "id.resp_p", "trans_depth", "method", "host", "uri", "referrer", "version", "user_agent", "id.origin", "request_body_len", "id.response_body_len", "status_code", "status_msg", "info_code", "info_msg", "tags", "username", "password", "proxied", "id.orig_fuids", "id.orig_filenames", "id.orig_mime_types", "id.resp_fuids", "id.resp_filenames", "id.resp_mime_types">>,
    ssl |->
      <<"ts", "uid", "id.orig_h", "id.orig_p", "id.resp_h", "id.resp_p", "version", "cipher", "curve", "server_name", "resumed", "last_alert", "next_protocol", "established", "cert_chain_fuids", "client_cert_chain_fuids", "subject", "issuer", "client_subject", "client_issuer", "validation_status">>,
    weird |->
      <<"ts", "uid", "id.orig_h", "id.orig_p", "id.resp_h", "id.resp_p", "name", "addl", "notice", "peer">>,
    x509 |->
      <<"ts", "uid", "version", "serial", "subject", "issuer", "not_valid_before", "not_valid_after", "key_alg", "sig_alg", "key_type", "key_length", "exponent", "curve", "dns", "uri", "email", "ip", "ca", "path_len">>,
    ssh |->
      <<"ts", "uid", "id.orig_h", "id.orig_p", "id.resp_h", "id.resp_p", "version", "auth_success", "auth_attempts", "direction", "client", "server", "cipher_alg", "mac_alg", "compression_alg", "kex_alg", "host_key_alg", "host_key", "inferences">>,
    sip |->
      <<"ts", "uid", "id.orig_h", "id.orig_p", "id.resp_h", "id.resp_p", "trans_depth", "method", "uri", "date", "request_fromrequest_to", "id.response_from", "id.response_to", "reply_to", "call_id", "seq", "subject", "request_path", "id.response_path", "user_agent", "status_code", "status_msg", "warning", "request_body_len", "id.response_body_len", "content_type">>,
    dpd |->
      <<"ts", "uid", "id.orig_h", "id.orig_p", "id.resp_h", "id.resp_p", "proto", "analyzer", "failure_reason", "packet_segment">>,
    snmp |->
      <<"ts", "uid", "id.orig_h", "id.orig_p", "id.resp_h", "id.resp_p", "duration", "version", "community", "get_requests", "get_bulk_requests", "get_responses", "set_requests", "display_string", "up_since">>,
    smtp |->
      <<"ts", "uid", "id.orig_h", "id.orig_p", "id.resp_h", "id.resp_p", "trans_depth", "helo", "mailfrom">>,
    pe |->
      <<"ts", "uid", "machine", "compile_ts", "os", "subsystem", "is_exe", "is_64bit", "uses_aslr", "uses_dep">>,
    tunnel |->
      <<"ts", "uid", "id.orig_h", "id.orig_p", "id.resp_h", "id.resp_p", "tunnel_type", "action">>,
    socks |->
      <<"ts", "uid", "id.orig_h", "id.orig_p", "id.resp_h", "id.resp_p", "version", "user", "password", "status", "request", "request_host", "request_name", "request_port", "bound_host", "bound_name">>,
    software |->
      <<"ts", "host", "host_port", "software_type", "name", "major", "minor", "minor2", "minor3", "addl", "unparsed_version">>,
    syslog |->
      <<"ts", "uid", "id.orig_h", "id.orig_p", "id.resp_h", "id.resp_p", "proto", "facility", "severity", "message">>,
    rfb |->
      <<"ts", "uid", "id.orig_h", "id.orig_p", "id.resp_h", "id.resp_p", "client_major_version", "client_minor_version", "server_major_version", "server_minor_version", "authentication_method", "auth", "share_flag", "desktop_name", "width", "height">>,
    radius |->
      <<"ts", "uid", "id.orig_h", "id.orig_p", "id.resp_h", "id.resp_p", "username", "mac", "remote_ip", "connect_info", "result", "logged">>,
    rdp |->
      <<"ts", "uid", "id.orig_h", "id.orig_p", "id.resp_h", "id.resp_p", "cookie", "result", "security_protocol", "client_build", "client_name", "client_dig_product_id", "desktop_width", "desktop_height", "requested_color_depth", "cert_type", "cert_count", "cert_permanent", "encryption_level", "encryption_method">>,
    ftp |->
      <<"ts", "uid", "id.orig_h", "id.orig_p", "id.resp_h", "id.resp_p", "user", "password", "command", "arg", "mime_type", "file_size", "reply_code", "reply_msg", "data_channel.passive", "data_channel.orig_h", "data_channel.resp_h", "data_channel.resp_p", "fuid">>,
    intel |->
      <<"ts", "uid", "id.orig_h", "id.orig_p", "id.resp_h", "id.resp_p", "indicator", "indicator_type", "seen_where", "seen_node", "matched", "sources", "fuid", "file_mime_type", "file_desc">>,
    irc |->
      <<"ts", "uid", "id.orig_h", "id.orig_p", "id.resp_h", "id.resp_p", "nick", "user", "command", "value", "additional_info", "dcc_file_name", "dcc_file_size", "dcc_mime_type", "fuid">>,
    kerberos |->
      <<"ts", "uid", "id.orig_h", "id.orig_p", "id.resp_h", "id.resp_p", "request_type", "client", "service", "success", "error_msg", "from", "till", "cipher", "forwardable", "renewable", "client_cert", "client_cert_fuid", "server_cert_subject", "server_cert_fuid">>,
    mysql |->
      <<"ts", "uid", "id.orig_h", "id.orig_p", "id.resp_h", "id.resp_p", "cmd", "arg", "success", "rows", "id.response">>,
    modbus |->
      <<"ts", "uid", "id.orig_h", "id.orig_p", "id.resp_h", "id.resp_p", "func", "exception">>,
    notice |->
      <<"ts", "uid", "id.orig_h", "id.orig_p", "id.resp_h", "id.resp_p", "fuid", "mime", "desc", "proto", "note", "msg", "sub", "src", "dst", "p", "n", "peer_descr", "actions", "suppress_for", "dropped", "destination_country_code", "destination_region", "destination_city", "destination_latitude", "destination_longitude">>,
    signature |->
      <<"ts", "uid", "id.orig_h", "id.orig_p", "id.resp_h", "id.resp_p", "note", "sig_id", "event_msg", "sub_msg", "sig_count", "host_count">>,
    smb_mapping |->
      <<"ts", "uid", "id.orig_h", "id.orig_p", "id.resp_h", "id.resp_p", "path", "service", "native_file_system", "share_type">>,
    smb_files |->
      <<"ts", "uid", "id.orig_h", "id.orig_p", "id.resp_h", "id.resp_p", "fuid", "action", "path", "name", "size", "prev_name", "modified", "accessed", "created", "changed">>,
    zeekdnp3 |->
      <<"ts", "uid", "id", "fc_request", "fc_reply", "iin">> ]

VARIABLES
  GOARCH,     \* the architecture the program is built for
  proc,          \* the Corelight processor: Prefix, tg, tagFields, tags
  pc,         \* "none": no processor; "init": inside init; "idle": constructed
  caller,     \* the entry point called last
  todo,       \* the categories init's range loop has yet to visit
  argPrefix,  \* the Prefix of the configuration the last call was given
  argTagger,  \* the tagger the last call was given
  err,        \* the error the last call (NewCorelight, Config, Process) returned
  calls,      \* the NegotiateTag calls the last call made: <<tagger, name>>
  ncalls,     \* how many NegotiateTag calls the last call made
  ents,       \* the batch given to Process: entry pointers, 0 for nil
  heap,       \* the entries the pointers refer to: Tag, TS, Data
  before,     \* the entries as they were when Process was called
  ret,        \* the batch Process returned
  run,        \* "none": Process not called; "first": called; "again": called again on its own output
  rewrote,    \* the entries the first Process call rewrote
  wpc,        \* concurrent Process calls: each call's position in the loop body
  widx,       \* each call's index into its batch
  wres        \* each call's locals tag, ts, line

vars == <<GOARCH, proc, pc, caller, todo, argPrefix, argTagger, err, calls, ncalls,
          ents, heap, before, ret, run, rewrote, wpc, widx, wres>>
lifeVars == <<proc, pc, caller, todo, argPrefix, argTagger, err, calls, ncalls>>
batchVars == <<ents, heap, before, ret, run, rewrote>>
workVars == <<wpc, widx, wres>>

(***************************************************************************)
(* Bytes and strings.                                                      *)
(***************************************************************************)
RECURSIVE Join(_)
\* string(b): the Go string a sequence of lexemes spells.
Join(s) == IF s = <<>> THEN "" ELSE Head(s) \o Join(Tail(s))

\* bytes.IndexByte: the 0-based index of the first lexeme c, or -1.
IndexByte(s, c) ==
  IF \E i \in 1..Len(s) : s[i] = c
  THEN (CHOOSE i \in 1..Len(s) : s[i] = c /\ \A j \in 1..(i - 1) : s[j] # c) - 1
  ELSE -1

\* s[idx:] for a 0-based idx.
SliceFrom(s, idx) == SubSeq(s, idx + 1, Len(s))

DigitChars == <<"0", "1", "2", "3", "4", "5", "6", "7", "8", "9">>
IsDigit(c) == \E d \in 1..10 : DigitChars[d] = c
DigitVal(c) == (CHOOSE d \in 1..10 : DigitChars[d] = c) - 1

RECURSIVE Zeros(_)
Zeros(n) == IF n <= 0 THEN <<>> ELSE <<"0">> \o Zeros(n - 1)

RECURSIVE StripLeadingZeros(_)
StripLeadingZeros(d) ==
  IF Len(d) > 1 /\ Head(d) = "0" THEN StripLeadingZeros(Tail(d))
  ELSE IF d = <<>> THEN <<"0">> ELSE d

RECURSIVE StripTrailingZeros(_)
StripTrailingZeros(d) ==
  IF d # <<>> /\ d[Len(d)] = "0" THEN StripTrailingZeros(SubSeq(d, 1, Len(d) - 1))
  ELSE d

RECURSIVE IntDigits(_)
\* The decimal digits of a natural number.
IntDigits(n) ==
  IF n < 10 THEN <<DigitChars[n + 1]>>
  ELSE Append(IntDigits(n \div 10), DigitChars[(n % 10) + 1])

RECURSIVE DigitsToInt(_)
\* The value of a short run of digits (an exponent); runs of more than four
\* digits saturate, far beyond the float64 range.
DigitsToInt(d) ==
  IF d = <<>> THEN 0
  ELSE IF Len(StripLeadingZeros(d)) > 4 THEN 9999
  ELSE 10 * DigitsToInt(SubSeq(d, 1, Len(d) - 1)) + DigitVal(d[Len(d)])

RECURSIVE DigitsLess(_, _)
\* a < b for two digit sequences of the same length.
DigitsLess(a, b) ==
  IF a = <<>> THEN FALSE
  ELSE IF DigitVal(Head(a)) # DigitVal(Head(b))
       THEN DigitVal(Head(a)) < DigitVal(Head(b))
       ELSE DigitsLess(Tail(a), Tail(b))

\* a <= b for two digit sequences without leading zeros.
DigitsLeq(a, b) ==
  \/ Len(a) < Len(b)
  \/ Len(a) = Len(b) /\ (a = b \/ DigitsLess(a, b))

RECURSIVE IncDigits(_)
\* A digit sequence plus one.
IncDigits(d) ==
  IF d = <<>> THEN <<"1">>
  ELSE IF d[Len(d)] = "9" THEN Append(IncDigits(SubSeq(d, 1, Len(d) - 1)), "0")
  ELSE Append(SubSeq(d, 1, Len(d) - 1), DigitChars[DigitVal(d[Len(d)]) + 2])

(***************************************************************************)
(* float64 values as the decoder produces them.  A number is kept as its   *)
(* sign, integer digits (no leading zeros) and fraction digits (no         *)
(* trailing zeros): math.Modf splits it there.  Binary rounding of the     *)
(* decimal literal is not modelled.                                        *)
(***************************************************************************)
MaxInt64Digits ==
  <<"9", "2", "2", "3", "3", "7", "2", "0", "3", "6", "8", "5", "4", "7", "7", "5", "8", "0", "7">>
MinInt64Digits ==
  <<"9", "2", "2", "3", "3", "7", "2", "0", "3", "6", "8", "5", "4", "7", "7", "5", "8", "0", "8">>

IsZero(f) == f.ip = <<"0">> /\ f.fp = <<>>

\* strconv.ParseFloat of a literal the scanner accepted: mantissa digits ip.fp
\* times 10^exp.  A magnitude beyond float64 is a range error.
ParseFloat(neg, ip, fp, exp) ==
  LET mant == StripLeadingZeros(ip \o fp)
      zero == mant = <<"0">>
      tooBig == ~zero /\ Len(StripLeadingZeros(ip)) + exp > 309
      tooSmall == ~zero /\ exp < 0 - 400
      moved == IF exp >= 0 THEN (IF exp < Len(fp) THEN exp ELSE Len(fp)) ELSE 0
      ipz == IF exp < 0 THEN Zeros((0 - exp) - Len(ip)) \o ip ELSE ip
      cut == IF exp < 0 THEN Len(ipz) + exp ELSE Len(ipz)
      nip == IF exp >= 0 THEN ip \o SubSeq(fp, 1, moved) \o Zeros(exp - moved)
             ELSE SubSeq(ipz, 1, cut)
      nfp == IF exp >= 0 THEN SubSeq(fp, moved + 1, Len(fp))
             ELSE SubSeq(ipz, cut + 1, Len(ipz)) \o fp
  IN  IF tooBig THEN [ok |-> FALSE, neg |-> FALSE, ip |-> <<"0">>, fp |-> <<>>]
      ELSE IF zero \/ tooSmall THEN [ok |-> TRUE, neg |-> neg, ip |-> <<"0">>, fp |-> <<>>]
      ELSE [ok |-> TRUE, neg |-> neg, ip |-> StripLeadingZeros(nip),
            fp |-> StripTrailingZeros(nfp)]

(***************************************************************************)
(* encoding/json: json.Unmarshal(line, &mp) with mp a map[string]interface{}*)
(***************************************************************************)
WhiteSpace == {" ", "\t", "\n", "\r"}
\* Bytes a JSON string may not hold unescaped.
ControlBytes == {"\t", "\n", "\r", "\\"}
\* The two-byte escapes of a JSON string and the byte each decodes to.
Unescape ==
  [e \in {"\\\"", "\\\\", "\\/", "\\t", "\\n", "\\r"} |->
     CASE e = "\\\"" -> "\""
       [] e = "\\\\" -> "\\"
       [] e = "\\/" -> "/"
       [] e = "\\t" -> "\t"
       [] e = "\\n" -> "\n"
       [] e = "\\r" -> "\r"]

NullValue == [k |-> "null"]
NoParse == [ok |-> FALSE, i |-> 0, v |-> NullValue]

RECURSIVE SkipWs(_, _)
SkipWs(s, i) == IF i <= Len(s) /\ s[i] \in WhiteSpace THEN SkipWs(s, i + 1) ELSE i

RECURSIVE DigitRun(_, _)
\* The index after the run of digits that starts at i.
DigitRun(s, i) == IF i <= Len(s) /\ IsDigit(s[i]) THEN DigitRun(s, i + 1) ELSE i

RECURSIVE ScanString(_, _, _)
\* The string literal whose opening quote precedes i: its decoded bytes.
ScanString(s, i, acc) ==
  IF i > Len(s) THEN NoParse
  ELSE IF s[i] = "\"" THEN [ok |-> TRUE, i |-> i + 1, v |-> acc]
  ELSE IF s[i] \in ControlBytes THEN NoParse
  ELSE ScanString(s, i + 1,
         Append(acc, IF s[i] \in DOMAIN Unescape THEN Unescape[s[i]] ELSE s[i]))

\* The number literal at i, decoded to a float64.
ScanNumber(s, i) ==
  LET neg == i <= Len(s) /\ s[i] = "-"
      a == IF neg THEN i + 1 ELSE i
      b == DigitRun(s, a)
      hasFrac == b <= Len(s) /\ s[b] = "."
      c == IF hasFrac THEN DigitRun(s, b + 1) ELSE b
      hasExp == c <= Len(s) /\ s[c] \in {"e", "E"}
      sgn == hasExp /\ c + 1 <= Len(s) /\ s[c + 1] \in {"+", "-"}
      d == IF hasExp THEN (IF sgn THEN c + 2 ELSE c + 1) ELSE c
      e == IF hasExp THEN DigitRun(s, d) ELSE c
      intOK == b > a /\ (b - a = 1 \/ s[a] # "0")
      fracOK == ~hasFrac \/ c > b + 1
      expOK == ~hasExp \/ e > d
      exp == IF hasExp
             THEN (IF sgn /\ s[c + 1] = "-" THEN 0 - 1 ELSE 1) * DigitsToInt(SubSeq(s, d, e - 1))
             ELSE 0
      f == ParseFloat(neg, SubSeq(s, a, b - 1),
                      IF hasFrac THEN SubSeq(s, b + 1, c - 1) ELSE <<>>, exp)
  IN  IF ~(intOK /\ fracOK /\ expOK) THEN NoParse
      ELSE IF ~f.ok THEN NoParse
      ELSE [ok |-> TRUE, i |-> e,
            v |-> [k |-> "number", neg |-> f.neg, ip |-> f.ip, fp |-> f.fp]]

RECURSIVE ParseValue(_, _)
RECURSIVE ParseElems(_, _, _)
RECURSIVE ParseMembers(_, _, _)

\* One JSON value starting at or after i.
ParseValue(s, i0) ==
  LET i == SkipWs(s, i0)
  IN  IF i > Len(s) THEN NoParse
      ELSE IF s[i] = "\""
        THEN LET r == ScanString(s, i + 1, <<>>)
             IN  IF r.ok THEN [ok |-> TRUE, i |-> r.i, v |-> [k |-> "string", s |-> r.v]]
                 ELSE NoParse
      ELSE IF s[i] = "{"
        THEN LET j == SkipWs(s, i + 1)
             IN  IF j <= Len(s) /\ s[j] = "}"
                 THEN [ok |-> TRUE, i |-> j + 1, v |-> [k |-> "object", mem |-> <<>>]]
                 ELSE ParseMembers(s, j, <<>>)
      ELSE IF s[i] = "["
        THEN LET j == SkipWs(s, i + 1)
             IN  IF j <= Len(s) /\ s[j] = "]"
                 THEN [ok |-> TRUE, i |-> j + 1, v |-> [k |-> "array", elems |-> <<>>]]
                 ELSE ParseElems(s, j, <<>>)
      ELSE IF s[i] \in {"true", "false"}
        THEN [ok |-> TRUE, i |-> i + 1, v |-> [k |-> "bool", b |-> s[i] = "true"]]
      ELSE IF s[i] = "null" THEN [ok |-> TRUE, i |-> i + 1, v |-> NullValue]
      ELSE IF s[i] = "-" \/ IsDigit(s[i]) THEN ScanNumber(s, i)
      ELSE NoParse

\* The elements of an array, up to and including its ']'.
ParseElems(s, i, acc) ==
  LET vr == ParseValue(s, i)
      m == SkipWs(s, vr.i)
      acc2 == Append(acc, vr.v)
  IN  IF ~vr.ok THEN NoParse
      ELSE IF m > Len(s) THEN NoParse
      ELSE IF s[m] = "," THEN ParseElems(s, m + 1, acc2)
      ELSE IF s[m] = "]" THEN [ok |-> TRUE, i |-> m + 1, v |-> [k |-> "array", elems |-> acc2]]
      ELSE NoParse

\* The members of an object, up to and including its '}'.
ParseMembers(s, i0, acc) ==
  LET i == SkipWs(s, i0)
      ks == ScanString(s, i + 1, <<>>)
      j == SkipWs(s, ks.i)
      vr == ParseValue(s, j + 1)
      m == SkipWs(s, vr.i)
      acc2 == Append(acc, [key |-> Join(ks.v), val |-> vr.v])
  IN  IF i > Len(s) \/ s[i] # "\"" THEN NoParse
      ELSE IF ~ks.ok THEN NoParse
      ELSE IF j > Len(s) \/ s[j] # ":" THEN NoParse
      ELSE IF ~vr.ok THEN NoParse
      ELSE IF m > Len(s) THEN NoParse
      ELSE IF s[m] = "," THEN ParseMembers(s, m + 1, acc2)
      ELSE IF s[m] = "}" THEN [ok |-> TRUE, i |-> m + 1, v |-> [k |-> "object", mem |-> acc2]]
      ELSE NoParse

\* The Go map of an object's members: a later duplicate key replaces an
\* earlier one.
ToMap(mem) ==
  [key \in {mem[n].key : n \in 1..Len(mem)} |->
     mem[CHOOSE n \in 1..Len(mem) :
           mem[n].key = key /\ \A n2 \in (n + 1)..Len(mem) : mem[n2].key # key].val]

EmptyMap == [key \in {} |-> NullValue]

\* json.Unmarshal(line, &mp): an error, or the decoded map.
Unmarshal(line) ==
  LET Result(r) ==
        IF ~r.ok THEN [err |-> TRUE, mp |-> EmptyMap]
        ELSE IF SkipWs(line, r.i) <= Len(line) THEN [err |-> TRUE, mp |-> EmptyMap]
        ELSE IF r.v.k = "null" THEN [err |-> FALSE, mp |-> EmptyMap]
        ELSE IF r.v.k # "object" THEN [err |-> TRUE, mp |-> EmptyMap]
        ELSE [err |-> FALSE, mp |-> ToMap(r.v.mem)]
  IN  Result(ParseValue(line, 1))

(***************************************************************************)
(* fmt: the verbs emitLine uses.                                           *)
(***************************************************************************)
\* "%.<prec>f" of a float64: exactly prec digits after the point, rounded.
FmtFixed(f, prec) ==
  LET kept == SubSeq(f.fp \o Zeros(prec - Len(f.fp)), 1, prec)
      roundUp == Len(f.fp) > prec /\ DigitVal(f.fp[prec + 1]) >= 5
      all == IF roundUp THEN StripLeadingZeros(IncDigits(<<"0">> \o f.ip \o kept))
             ELSE f.ip \o kept
      digs == Zeros((prec + 1) - Len(all)) \o all
  IN  (IF f.neg THEN <<"-">> ELSE <<>>)
        \o SubSeq(digs, 1, Len(digs) - prec) \o <<".">>
        \o SubSeq(digs, Len(digs) - prec + 1, Len(digs))

\* "%d" of an int.
FmtInt(n) == (IF n.neg /\ n.ip # <<"0">> THEN <<"-">> ELSE <<>>) \o n.ip

RECURSIVE LeadingZeroCount(_)
LeadingZeroCount(d) ==
  IF d # <<>> /\ Head(d) = "0" THEN 1 + LeadingZeroCount(Tail(d)) ELSE 0

\* "%v" of a float64 ('g' with the shortest digits).
FmtG(f) ==
  LET sign == IF f.neg THEN <<"-">> ELSE <<>>
      x == IF f.ip # <<"0">> THEN Len(f.ip) - 1 ELSE 0 - (LeadingZeroCount(f.fp) + 1)
      sig == StripTrailingZeros(StripLeadingZeros(f.ip \o f.fp))
      ax == IF x < 0 THEN 0 - x ELSE x
      expDigits == IF ax < 10 THEN <<"0">> \o IntDigits(ax) ELSE IntDigits(ax)
  IN  IF IsZero(f) THEN sign \o <<"0">>
      ELSE IF x < 0 - 4 \/ x >= 21
        THEN sign \o <<Head(sig)>>
               \o (IF Len(sig) > 1 THEN <<".">> \o Tail(sig) ELSE <<>>)
               \o <<"e", IF x < 0 THEN "-" ELSE "+">> \o expDigits
      ELSE sign \o f.ip \o (IF f.fp # <<>> THEN <<".">> \o f.fp ELSE <<>>)

RECURSIVE FmtV(_)
RECURSIVE FmtElems(_)
RECURSIVE FmtMembers(_)
\* "%v" of a decoded value.  A map prints its keys sorted; the model keeps
\* them in order of appearance, which is the same for at most one key.
FmtV(v) ==
  CASE v.k = "string" -> v.s
    [] v.k = "number" -> FmtG(v)
    [] v.k = "bool" -> IF v.b THEN <<"true">> ELSE <<"false">>
    [] v.k = "null" -> <<"<nil>">>
    [] v.k = "array" -> <<"[">> \o FmtElems(v.elems) \o <<"]">>
    [] v.k = "object" -> <<"map", "[">> \o FmtMembers(v.mem) \o <<"]">>

FmtElems(e) ==
  IF e = <<>> THEN <<>>
  ELSE IF Len(e) = 1 THEN FmtV(e[1])
  ELSE FmtV(e[1]) \o <<" ">> \o FmtElems(Tail(e))

FmtMembers(m) ==
  IF m = <<>> THEN <<>>
  ELSE <<m[1].key, ":">> \o FmtV(m[1].val)
         \o (IF Len(m) > 1 THEN <<" ">> \o FmtMembers(Tail(m)) ELSE <<>>)

(***************************************************************************)
(* time: the RFC3339Nano texts time.Parse is given, with the instant each  *)
(* denotes (Unix seconds and nanoseconds).  Any other text is a parse      *)
(* error.                                                                  *)
(***************************************************************************)
ZeroTime == [sec |-> 0, nsec |-> 0]

TimeParse(str) ==
  CASE str = "2021-01-01T00:00:00.000000Z" ->
         [err |-> FALSE, ts |-> [sec |-> 1609459200, nsec |-> 0]]
    [] str = "2021-01-01T00:00:01.5Z" ->
         [err |-> FALSE, ts |-> [sec |-> 1609459201, nsec |-> 500000000]]
    [] str = "2021-01-01T01:00:02+01:00" ->
         [err |-> FALSE, ts |-> [sec |-> 1609459202, nsec |-> 0]]
    [] str = "1969-12-31T23:59:59.25Z" ->
         [err |-> FALSE, ts |-> [sec |-> 0 - 1, nsec |-> 250000000]]
    [] OTHER -> [err |-> TRUE, ts |-> ZeroTime]

\* float64(ts.UnixNano())/1000000000.0 as a float64.
EpochSeconds(ts) ==
  LET below == ts.sec < 0
      asec == IF below THEN (IF ts.nsec > 0 THEN (0 - ts.sec) - 1 ELSE 0 - ts.sec)
              ELSE ts.sec
      ansec == IF below /\ ts.nsec > 0 THEN 1000000000 - ts.nsec ELSE ts.nsec
      nd == IntDigits(ansec)
  IN  [neg |-> below, ip |-> IntDigits(asec),
       fp |-> StripTrailingZeros(Zeros(9 - Len(nd)) \o nd)]

\* entry.FromStandard: the entry timestamp of a time.Time.
FromStandard(ts) == [sec |-> ts.sec, nsec |-> ts.nsec]

(***************************************************************************)
(* The processor.                                                          *)
(***************************************************************************)
defaultTag == ""
defaultPrefix == "zeek"

\* int(f64) for an f64 without fractional part.  A value int64 cannot hold
\* converts to an implementation-dependent result: the indefinite integer on
\* amd64, the saturated one on arm64.
IntConv(f) ==
  IF DigitsLeq(f.ip, IF f.neg THEN MinInt64Digits ELSE MaxInt64Digits)
  THEN [neg |-> f.neg, ip |-> f.ip]
  ELSE IF GOARCH = "amd64" \/ f.neg THEN [neg |-> TRUE, ip |-> MinInt64Digits]
  ELSE [neg |-> FALSE, ip |-> MaxInt64Digits]

\* One column of emitLine's loop, with its leading tab.
emitField(h, mp) ==
  IF h \in DOMAIN mp
  THEN IF mp[h].k = "number"
       THEN IF mp[h].fp = <<>>
            THEN <<"\t">> \o FmtInt(IntConv(mp[h]))
            ELSE <<"\t">> \o FmtFixed(mp[h], 5)
       ELSE <<"\t">> \o FmtV(mp[h])
  ELSE <<"\t", "-">>

RECURSIVE emitFields(_, _)
emitFields(hs, mp) ==
  IF hs = <<>> THEN <<>> ELSE emitField(Head(hs), mp) \o emitFields(Tail(hs), mp)

emitLine(ts, headers, mp) ==
  [line |-> FmtFixed(EpochSeconds(ts), 6) \o emitFields(Tail(headers), mp), ok |-> TRUE]

getTagTs(p, mp) ==
  LET no == [tag |-> "", ts |-> ZeroTime, ok |-> FALSE]
  IN  IF "_path" \notin DOMAIN mp THEN no
      ELSE IF "ts" \notin DOMAIN mp THEN no
      ELSE IF mp["_path"].k # "string" THEN no
      ELSE IF mp["ts"].k # "string" THEN no
      ELSE LET t == TimeParse(Join(mp["ts"].s))
           IN  IF t.err THEN no
               ELSE [tag |-> p.Prefix \o Join(mp["_path"].s), ts |-> t.ts, ok |-> TRUE]

process(p, mp, og) ==
  LET no == [tag |-> defaultTag, ts |-> ZeroTime, line |-> og]
      Emitted(tt, em) ==
        IF ~em.ok THEN no ELSE [tag |-> tt.tag, ts |-> tt.ts, line |-> em.line]
      Tagged(tt) ==
        IF ~tt.ok THEN no
        ELSE IF tt.tag \notin DOMAIN p.tagFields THEN no
        ELSE Emitted(tt, emitLine(tt.ts, p.tagFields[tt.tag], mp))
  IN  IF Cardinality(DOMAIN mp) = 0 THEN no ELSE Tagged(getTagTs(p, mp))

processLine(p, s) ==
  LET idx == IndexByte(s, "{")
      Decoded(line, um) ==
        IF um.err THEN [tag |-> defaultTag, ts |-> ZeroTime, line |-> line]
        ELSE process(p, um.mp, line)
      From(line) == Decoded(line, Unmarshal(line))
  IN  IF idx = 0 - 1 THEN [tag |-> defaultTag, ts |-> ZeroTime, line |-> s]
      ELSE From(SliceFrom(s, idx))

\* A loop body that keeps the payload trimmed at its '{' when it does not
\* rewrite the entry.
ProcessEntTrimmed(p, ent) ==
  LET Rewrite(r) ==
        IF r.tag # defaultTag /\ r.tag \in DOMAIN p.tags
        THEN [Tag |-> p.tags[r.tag], TS |-> FromStandard(r.ts), Data |-> r.line]
        ELSE [ent EXCEPT !.Data = r.line]
  IN  IF Len(ent.Data) = 0 THEN ent ELSE Rewrite(processLine(p, ent.Data))

\* A loop body that leaves the entry's timestamp as it was.
ProcessEntNoTS(p, ent) ==
  LET Rewrite(r) ==
        IF r.tag # defaultTag /\ r.tag \in DOMAIN p.tags
        THEN [Tag |-> p.tags[r.tag], TS |-> ent.TS, Data |-> r.line]
        ELSE ent
  IN  IF Len(ent.Data) = 0 THEN ent ELSE Rewrite(processLine(p, ent.Data))

\* The body of Process's loop for one entry that is not nil.
ProcessEnt(p, ent) ==
  LET Rewrite(r) ==
        IF r.tag # defaultTag /\ r.tag \in DOMAIN p.tags
        THEN [Tag |-> p.tags[r.tag], TS |-> FromStandard(r.ts), Data |-> r.line]
        ELSE ent
  IN  IF Len(ent.Data) = 0 THEN ent ELSE Rewrite(processLine(p, ent.Data))

(***************************************************************************)
(* Construction: NewCorelight, Config, init.                               *)
(***************************************************************************)
\* How many categories of tagHeaders the model's table holds.
MaxCats == 3

\* tagHeaders' keys; init ranges over the first MaxCats of them, in any order.
CategoryOrder ==
  <<"zeekdnp3", "tunnel", "modbus", "smtp", "weird", "dpd", "pe", "syslog",
    "smb_mapping", "software", "mysql", "radius", "signature", "dhcp", "snmp",
    "intel", "irc", "socks", "rfb", "smb_files", "ssh", "ftp", "x509", "rdp",
    "kerberos", "ssl", "conn", "dns", "files", "sip", "notice", "http">>

Categories ==
  {CategoryOrder[n] : n \in 1..(IF MaxCats < Len(CategoryOrder) THEN MaxCats
                                 ELSE Len(CategoryOrder))}

Taggers == {"tgA", "tgB"}
Prefixes == {"", "cl"}

\* Tagger.NegotiateTag when it succeeds: every tagger gives every name a tag
\* of its own, the same one each time it is asked.
TagId(tg, name) ==
  LET n == CHOOSE n \in 1..Len(CategoryOrder) :
             name \in {defaultPrefix \o CategoryOrder[n], "cl" \o CategoryOrder[n]}
  IN  (IF tg = "tgA" THEN 100 ELSE 200) + 2 * n
        + (IF name = "cl" \o CategoryOrder[n] THEN 1 ELSE 0)

NoFields == [name \in {} |-> <<>>]
NoTags == [name \in {} |-> 0]
NoProcessor == [Prefix |-> "", tg |-> "", tagFields |-> NoFields, tags |-> NoTags]

Put(f, k, v) == [x \in DOMAIN f \cup {k} |-> IF x = k THEN v ELSE f[x]]

\* init, up to its loop.  It reads the receiver's Prefix and makes the two
\* maps; its parameters cfg and tagger are not used.
initBegin(p, cfg, tagger) ==
  [p EXCEPT !.Prefix = IF p.Prefix = "" THEN defaultPrefix ELSE p.Prefix,
            !.tagFields = NoFields,
            !.tags = NoTags]

\* An iteration that records the tag and not the field list.
initIterNoFields(p, k, res) ==
  IF res.err THEN p ELSE [p EXCEPT !.tags = Put(p.tags, p.Prefix \o k, res.tv)]

\* One iteration of init's loop for category k, NegotiateTag answering res.
initIter(p, k, res) ==
  LET tagName == p.Prefix \o k
      q == [p EXCEPT !.tagFields = Put(p.tagFields, tagName, tagHeaders[k])]
  IN  IF res.err THEN q ELSE [q EXCEPT !.tags = Put(q.tags, tagName, res.tv)]

NewCorelight(cfg, tagger) ==
  /\ pc = "none"
  /\ proc' = initBegin([NoProcessor EXCEPT !.Prefix = cfg.Prefix, !.tg = tagger], cfg, tagger)
  /\ pc' = "init"
  /\ caller' = "NewCorelight"
  /\ todo' = Categories
  /\ argPrefix' = cfg.Prefix
  /\ argTagger' = tagger
  /\ err' = "nil"
  /\ calls' = {}
  /\ ncalls' = 0
  /\ UNCHANGED <<GOARCH, batchVars, workVars>>

\* Config(v, tagger) on the constructed processor.
Config(v, tagger) ==
  /\ pc = "idle"
  /\ run = "none"
  /\ caller' = "Config"
  /\ argPrefix' = v.Prefix
  /\ argTagger' = tagger
  /\ calls' = {}
  /\ ncalls' = 0
  /\ IF v.type = "nil"
     THEN err' = "ErrNilConfig" /\ UNCHANGED <<proc, pc, todo>>
     ELSE IF v.type = "CorelightConfig"
     THEN /\ proc' = initBegin(proc, v, tagger)
          /\ pc' = "init"
          /\ todo' = Categories
          /\ err' = "nil"
     ELSE err' = "Invalid configuration" /\ UNCHANGED <<proc, pc, todo>>
  /\ UNCHANGED <<GOARCH, batchVars, workVars>>

\* One iteration of init's loop: the tagger answers with a tag or an error.
\* On an error init returns it: NewCorelight then returns no processor, Config
\* returns the error and the processor stays as the loop left it.
InitStep(k, fails) ==
  /\ pc = "init"
  /\ k \in todo
  /\ LET tagName == proc.Prefix \o k
         res == [err |-> fails, tv |-> TagId(proc.tg, tagName)]
     IN  /\ calls' = calls \cup {<<proc.tg, tagName>>}
         /\ ncalls' = ncalls + 1
         /\ IF fails
            THEN /\ err' = "NegotiateTag failed"
                 /\ todo' = {}
                 /\ IF caller = "NewCorelight"
                    THEN proc' = NoProcessor /\ pc' = "none"
                    ELSE proc' = initIter(proc, k, res) /\ pc' = "idle"
            ELSE /\ proc' = initIter(proc, k, res)
                 /\ todo' = todo \ {k}
                 /\ UNCHANGED <<err, pc>>
  /\ UNCHANGED <<GOARCH, caller, argPrefix, argTagger, batchVars, workVars>>

\* init's loop is over: init returns nil.
InitReturn ==
  /\ pc = "init"
  /\ todo = {}
  /\ pc' = "idle"
  /\ err' = "nil"
  /\ UNCHANGED <<GOARCH, proc, caller, todo, argPrefix, argTagger, calls, ncalls,
                 batchVars, workVars>>

(***************************************************************************)
(* Process.                                                                *)
(***************************************************************************)
RECURSIVE ProcessLoop(_, _, _, _)
\* Process's range loop from index i on: the entries after it.
ProcessLoop(p, es, i, h) ==
  IF i > Len(es) THEN h
  ELSE IF es[i] = 0 THEN ProcessLoop(p, es, i + 1, h)
  ELSE ProcessLoop(p, es, i + 1, [h EXCEPT ![es[i]] = ProcessEnt(p, h[es[i]])])

\* A Process that returns the batch without its nil entries.
ProcessBatchDropNil(p, es, h) ==
  [ret |-> SelectSeq(es, LAMBDA e : e # 0), err |-> "nil", heap |-> ProcessLoop(p, es, 1, h)]

\* Process(ents): the slice and error it returns, and the entries after it.
ProcessBatch(p, es, h) ==
  IF Len(es) = 0 THEN [ret |-> es, err |-> "nil", heap |-> h]
  ELSE [ret |-> es, err |-> "nil", heap |-> ProcessLoop(p, es, 1, h)]

(***************************************************************************)
(* The payloads the batches are made of.                                   *)
(***************************************************************************)
Q == "\""
T1 == "2021-01-01T00:00:00.000000Z"
T2 == "2021-01-01T00:00:01.5Z"
T3 == "2021-01-01T01:00:02+01:00"
T4 == "1969-12-31T23:59:59.25Z"

Str(s) == <<Q>> \o s \o <<Q>>
Member(k, v) == Str(<<k>>) \o <<":">> \o v
RECURSIVE Members(_)
Members(ms) ==
  IF ms = <<>> THEN <<>>
  ELSE IF Len(ms) = 1 THEN ms[1]
  ELSE ms[1] \o <<",">> \o Members(Tail(ms))
Obj(ms) == <<"{">> \o Members(ms) \o <<"}">>
\* The text of s inside a JSON string: its quotes escaped.
Escaped(s) == [n \in 1..Len(s) |-> IF s[n] = Q THEN "\\\"" ELSE s[n]]

Path(k) == Member("_path", Str(<<k>>))
Ts(t) == Member("ts", Str(<<t>>))

pMinimal == Obj(<<Path("zeekdnp3"), Ts(T1)>>)
pSyslog ==
  <<"<13>", "sensor", ":", " ">>
    \o Obj(<<Path("tunnel"), Ts(T2), Member("uid", Str(<<"CAbc">>)),
             Member("id.orig_h", Str(<<"1.2.3.4">>)), Member("id.orig_p", <<"5">>),
             Member("id.resp_p", <<"5", ".", "5">>), Member("other", <<"7">>)>>)
pNested == Obj(<<Path("tunnel"), Ts(T1), Member("action", Str(Escaped(pMinimal)))>>)
pTab == Obj(<<Path("zeekdnp3"), Ts(T1), Member("uid", Str(<<"a", "\\t", "b">>))>>)
pHuge ==
  Obj(<<Path("modbus"), Ts(T1), Member("func", <<"1", "e", "1", "9">>),
        Member("exception", <<"-", "1", "e", "1", "9">>),
        Member("uid", <<"9", "0", "0", "7", "1", "9", "9", "2", "5", "4", "7", "4",
                        "0", "9", "9", "2">>)>>)
pNumbers ==
  Obj(<<Path("zeekdnp3"), Ts(T3), Member("uid", <<"2", ".", "5", "e", "2">>),
        Member("id", <<"-", "3">>), Member("fc_request", <<"0", ".", "5">>),
        Member("fc_reply", <<"-", "0">>),
        Member("iin", <<"1", ".", "2", "3", "4", "5", "6", "7">>)>>)
pMixed ==
  Obj(<<Path("tunnel"), Ts(T4), Member("id.orig_h", <<"true">>),
        Member("tunnel_type", <<"null">>),
        Member("action", <<"[", Q, "a", Q, ",", "2", ",", " ", "1", "e", "2", "1",
                             ",", "2", "5", "e", "-", "7", "]">>),
        Member("uid", <<"{", Q, "k", Q, ":", Q, "v", Q, "}">>)>>)
pTrailingWs == Obj(<<Path("tunnel"), Ts(T1)>>) \o <<"\n">>
pDupKey == Obj(<<Path("foo"), Ts(T1), Path("zeekdnp3")>>)
pNoBrace == <<"plain", " ", "text", "\t", "-">>
pTruncated == <<"{">> \o Path("tunnel") \o <<",">> \o Ts(T1)
pTrailing == <<"hdr", " ">> \o pMinimal \o <<" ", "x">>
pBraceJunk == <<"x", "{", "y", " ">> \o pMinimal
pRawTab == Obj(<<Path("zeekdnp3"), Ts(T1), Member("uid", Str(<<"a", "\t", "b">>))>>)
pOverflow == Obj(<<Path("zeekdnp3"), Ts(T1), Member("uid", <<"1", "e", "4", "0", "0">>)>>)
pLeadingZero == Obj(<<Path("zeekdnp3"), Ts(T1), Member("uid", <<"0", "1">>)>>)
pEmptyObj == <<"hdr", " ", "{", " ", "}">>
pNoPath == Obj(<<Ts(T1), Member("uid", Str(<<"CAbc">>))>>)
pNoTs == Obj(<<Path("zeekdnp3")>>)
pPathNum == Obj(<<Member("_path", <<"5">>), Ts(T1)>>)
pTsNum == Obj(<<Path("zeekdnp3"), Member("ts", <<"1", "6", "0", "9">>)>>)
pBadTs == Obj(<<Path("zeekdnp3"), Ts("2021-01-01 00:00:00")>>)
pUnknown == <<"hdr", " ">> \o Obj(<<Path("foo"), Ts(T1)>>)
pEmptyPath == Obj(<<Member("_path", Str(<<>>)), Ts(T1)>>)
pEmpty == <<>>

GoodPayloads ==
  {pMinimal, pSyslog, pNested, pTab, pHuge, pNumbers, pMixed, pTrailingWs, pDupKey}
BadPayloads ==
  {pNoBrace, pTruncated, pTrailing, pBraceJunk, pRawTab, pOverflow, pLeadingZero,
   pEmptyObj, pNoPath, pNoTs, pPathNum, pTsNum, pBadTs, pUnknown, pEmptyPath, pEmpty}
Payloads == GoodPayloads \cup BadPayloads

\* An entry as a reader hands it to the processor.
NewEntry(data) == [Tag |-> 1, TS |-> [sec |-> 1700000000, nsec |-> 7], Data |-> data]
Slots == {1, 2}
Heap(d1, d2) == [r \in Slots |-> IF r = 1 THEN NewEntry(d1) ELSE NewEntry(d2)]

\* The batches Process is given: the empty one, one entry, nils around an
\* entry, two entries.
Batches ==
  {[ents |-> <<>>, heap |-> Heap(<<>>, <<>>)]}
    \cup {[ents |-> <<1>>, heap |-> Heap(d, <<>>)] : d \in Payloads}
    \cup {[ents |-> <<0, 2, 0>>, heap |-> Heap(<<>>, d)] : d \in {pEmpty, pSyslog}}
    \cup {[ents |-> <<1, 2>>, heap |-> Heap(d, pSyslog)] : d \in Payloads}
    \cup {[ents |-> <<1, 2>>, heap |-> Heap(d, pUnknown)] : d \in {pMinimal, pEmpty}}

\* Process(b.ents) on a constructed processor.
Process(b) ==
  LET Return(out) ==
        /\ heap' = out.heap
        /\ ret' = out.ret
        /\ err' = out.err
        /\ rewrote' = {r \in DOMAIN b.heap : out.heap[r] # b.heap[r]}
  IN  /\ pc = "idle"
      /\ run = "none"
      /\ ents' = b.ents
      /\ before' = b.heap
      /\ Return(ProcessBatch(proc, b.ents, b.heap))
      /\ run' = "first"
      /\ caller' = "Process"
      /\ argPrefix' = ""
      /\ argTagger' = ""
      /\ calls' = {}
      /\ ncalls' = 0
      /\ UNCHANGED <<GOARCH, proc, pc, todo, workVars>>

\* Process again, on the batch the first call returned.
ProcessAgain ==
  LET Return(out) ==
        /\ heap' = out.heap
        /\ ret' = out.ret
        /\ err' = out.err
  IN  /\ pc = "idle"
      /\ run = "first"
      /\ before' = heap
      /\ Return(ProcessBatch(proc, ret, heap))
      /\ run' = "again"
      /\ UNCHANGED <<GOARCH, proc, pc, todo, caller, argPrefix, argTagger, calls,
                     ncalls, ents, rewrote, workVars>>

ConfigValues ==
  {[type |-> "nil", Prefix |-> ""], [type |-> "string", Prefix |-> ""]}
    \cup {[type |-> "CorelightConfig", Prefix |-> x] : x \in Prefixes}

Init ==
  /\ GOARCH \in {"amd64", "arm64"}
  /\ proc = NoProcessor
  /\ pc = "none"
  /\ caller = ""
  /\ todo = {}
  /\ argPrefix = ""
  /\ argTagger = ""
  /\ err = "nil"
  /\ calls = {}
  /\ ncalls = 0
  /\ ents = <<>>
  /\ heap = Heap(<<>>, <<>>)
  /\ before = Heap(<<>>, <<>>)
  /\ ret = <<>>
  /\ run = "none"
  /\ rewrote = {}
  /\ wpc = <<>>
  /\ widx = <<>>
  /\ wres = <<>>

Next ==
  \/ \E x \in Prefixes : NewCorelight([type |-> "CorelightConfig", Prefix |-> x], "tgA")
  \/ \E v \in ConfigValues, t \in Taggers : Config(v, t)
  \/ \E k \in Categories, fails \in BOOLEAN : InitStep(k, fails)
  \/ InitReturn
  \/ \E b \in Batches : Process(b)
  \/ ProcessAgain

Spec == Init /\ [][Next]_vars

(***************************************************************************)
(* Process called concurrently on disjoint entries of one batch.  Each     *)
(* call runs the loop body of Process over its own part of the batch; the  *)
(* three assignments to the entry are steps of their own.                  *)
(***************************************************************************)
RECURSIVE initLoop(_, _)
\* init's loop over the first n categories, every NegotiateTag succeeding.
initLoop(p, n) ==
  IF n = 0 THEN p
  ELSE initIter(initLoop(p, n - 1), CategoryOrder[n],
                [err |-> FALSE, tv |-> TagId(p.tg, p.Prefix \o CategoryOrder[n])])

\* The processor NewCorelight(cfg, tagger) returns with its error nil.
Constructed(cfg, tagger) ==
  initLoop(initBegin([NoProcessor EXCEPT !.Prefix = cfg.Prefix, !.tg = tagger], cfg, tagger),
           Cardinality(Categories))

Workers == {1, 2}
\* The indices of the batch each call ranges over.
Share(w) == IF w = 1 THEN <<1, 2>> ELSE <<3, 4>>
\* One place for tag, ts and line that every call uses.
SharedResultSlot(w) == 1
\* Where a call keeps tag, ts and line: they are locals of the call.
ResultSlot(w) == w

ConcPayloads == {pSyslog, pNested, pTrailing, pEmpty}
NoResult == [tag |-> defaultTag, ts |-> ZeroTime, line |-> <<>>]

InitConc ==
  /\ GOARCH \in {"amd64", "arm64"}
  /\ proc = Constructed([type |-> "CorelightConfig", Prefix |-> ""], "tgA")
  /\ pc = "idle"
  /\ caller = "Process"
  /\ todo = {}
  /\ argPrefix = ""
  /\ argTagger = ""
  /\ err = "nil"
  /\ calls = {}
  /\ ncalls = 0
  /\ ents = <<1, 2, 0, 3>>
  /\ heap \in [{1, 2, 3} -> {NewEntry(d) : d \in ConcPayloads}]
  /\ before = heap
  /\ ret = ents
  /\ run = "none"
  /\ rewrote = {}
  /\ wpc = [w \in Workers |-> "range"]
  /\ widx = [w \in Workers |-> Share(w)[1]]
  /\ wres = [w \in Workers |-> NoResult]

\* The head of the loop: the next entry, skipped when nil or empty, else
\* given to processLine; past the last entry the call returns.
WRange(w) ==
  /\ wpc[w] = "range"
  /\ IF widx[w] > Share(w)[2]
     THEN wpc' = [wpc EXCEPT ![w] = "done"] /\ UNCHANGED <<widx, wres>>
     ELSE IF ents[widx[w]] = 0 \/ Len(heap[ents[widx[w]]].Data) = 0
     THEN widx' = [widx EXCEPT ![w] = @ + 1] /\ UNCHANGED <<wpc, wres>>
     ELSE /\ wres' = [wres EXCEPT
                        ![ResultSlot(w)] = processLine(proc, heap[ents[widx[w]]].Data)]
          /\ wpc' = [wpc EXCEPT ![w] = "tag"]
          /\ UNCHANGED widx
  /\ UNCHANGED <<GOARCH, lifeVars, batchVars>>

\* tag != defaultTag and the lookup in c.tags; ent.Tag = tv.
WSetTag(w) ==
  /\ wpc[w] = "tag"
  /\ IF /\ wres[ResultSlot(w)].tag # defaultTag
        /\ wres[ResultSlot(w)].tag \in DOMAIN proc.tags
     THEN /\ heap' = [heap EXCEPT ![ents[widx[w]]].Tag = proc.tags[wres[ResultSlot(w)].tag]]
          /\ wpc' = [wpc EXCEPT ![w] = "ts"]
          /\ UNCHANGED widx
     ELSE /\ widx' = [widx EXCEPT ![w] = @ + 1]
          /\ wpc' = [wpc EXCEPT ![w] = "range"]
          /\ UNCHANGED heap
  /\ UNCHANGED <<GOARCH, lifeVars, ents, before, ret, run, rewrote, wres>>

\* ent.TS = entry.FromStandard(ts).
WSetTS(w) ==
  /\ wpc[w] = "ts"
  /\ heap' = [heap EXCEPT ![ents[widx[w]]].TS = FromStandard(wres[ResultSlot(w)].ts)]
  /\ wpc' = [wpc EXCEPT ![w] = "data"]
  /\ UNCHANGED <<GOARCH, lifeVars, ents, before, ret, run, rewrote, widx, wres>>

\* ent.Data = line.
WSetData(w) ==
  /\ wpc[w] = "data"
  /\ heap' = [heap EXCEPT ![ents[widx[w]]].Data = wres[ResultSlot(w)].line]
  /\ widx' = [widx EXCEPT ![w] = @ + 1]
  /\ wpc' = [wpc EXCEPT ![w] = "range"]
  /\ UNCHANGED <<GOARCH, lifeVars, ents, before, ret, run, rewrote, wres>>

NextConc ==
  \/ \E w \in Workers : WRange(w)
  \/ \E w \in Workers : WSetTag(w)
  \/ \E w \in Workers : WSetTS(w)
  \/ \E w \in Workers : WSetData(w)

SpecConc == InitConc /\ [][NextConc]_vars

(***************************************************************************)
(* What the claims are stated with.                                        *)
(***************************************************************************)
\* The names init gives the categories under prefix x, "zeek" when x is empty.
NamesOf(x) == {(IF x = "" THEN defaultPrefix ELSE x) \o k : k \in Categories}

\* The decoded map of a payload that has a '{' and decodes.
DecodedMap(data) == Unmarshal(SliceFrom(data, IndexByte(data, "{"))).mp

\* Every precondition of the rewrite holds for the payload: it is not empty,
\* has a '{', decodes to a map that is not empty, '_path' and 'ts' are strings,
\* 'ts' parses, and prefix+_path is a tag name the processor knows.
Passes(p, data) ==
  /\ Len(data) > 0
  /\ IndexByte(data, "{") # 0 - 1
  /\ ~Unmarshal(SliceFrom(data, IndexByte(data, "{"))).err
  /\ Cardinality(DOMAIN DecodedMap(data)) > 0
  /\ getTagTs(p, DecodedMap(data)).ok
  /\ getTagTs(p, DecodedMap(data)).tag \in DOMAIN p.tagFields
  /\ getTagTs(p, DecodedMap(data)).tag \in DOMAIN p.tags

TagNameOf(p, data) == getTagTs(p, DecodedMap(data)).tag
HeadersOf(p, data) == p.tagFields[TagNameOf(p, data)]

\* The TSV line of a payload that passes.
LineOf(p, data) ==
  emitLine(getTagTs(p, DecodedMap(data)).ts, HeadersOf(p, data), DecodedMap(data)).line

\* The entries Process was given, nil left out.
Given == {ents[n] : n \in 1..Len(ents)} \ {0}

\* C1: an entry of the batch that fails a precondition has the tag, timestamp
\* and payload after Process that it had before, bytes before the first '{'
\* included, and the entries after it are still handled: one that passes is
\* rewritten.
C1_FailedEntryUntouched ==
  run # "none" =>
    \A r \in Given :
      /\ ~Passes(proc, before[r].Data) => heap[r] = before[r]
      /\ Passes(proc, before[r].Data) => heap[r].Data = LineOf(proc, before[r].Data)

\* A batch whose first entry has bytes before its '{' and fails to decode, and
\* whose second entry was rewritten.
C1_Witness ==
  /\ run = "first"
  /\ ents = <<1, 2>>
  /\ IndexByte(before[1].Data, "{") > 0
  /\ ~Passes(proc, before[1].Data)
  /\ heap[1] = before[1]
  /\ Passes(proc, before[2].Data)
  /\ heap[2] # before[2]

\* C2: after Process every entry is as it was, or has all three of tag,
\* timestamp and payload replaced: by the tag the tagger gave prefix+_path, by
\* the parsed ts, by the emitted line.
C2_AllThreeOrNone ==
  run # "none" =>
    \A r \in DOMAIN heap :
      \/ heap[r] = before[r]
      \/ /\ Passes(proc, before[r].Data)
         /\ heap[r].Tag = TagId(proc.tg, TagNameOf(proc, before[r].Data))
         /\ heap[r].TS = FromStandard(getTagTs(proc, DecodedMap(before[r].Data)).ts)
         /\ heap[r].Data = LineOf(proc, before[r].Data)

\* An entry whose tag, timestamp and payload all changed.
C2_Witness ==
  /\ run = "first"
  /\ \E r \in Given :
       /\ heap[r].Tag # before[r].Tag
       /\ heap[r].TS # before[r].TS
       /\ heap[r].Data # before[r].Data

\* C3: Process returns no error and the batch it was given: the same length,
\* the same entry at every index.
C3_SameBatchReturned ==
  run # "none" =>
    /\ err = "nil"
    /\ Len(ret) = Len(ents)
    /\ \A n \in 1..Len(ents) : ret[n] = ents[n]

\* A batch with nil entries and an entry with an empty payload went through.
C3_Witness ==
  /\ run = "first"
  /\ ents = <<0, 2, 0>>
  /\ before[2].Data = <<>>
  /\ ret = ents

RECURSIVE CountTabs(_)
CountTabs(line) ==
  IF line = <<>> THEN 0
  ELSE (IF Head(line) = "\t" THEN 1 ELSE 0) + CountTabs(Tail(line))

\* Column 0 of a line: what precedes its first tab.
Column0(line) ==
  IF IndexByte(line, "\t") = 0 - 1 THEN line ELSE SubSeq(line, 1, IndexByte(line, "\t"))

\* Epoch seconds with exactly 6 digits after the point.
IsEpoch6(col) ==
  LET body == IF col # <<>> /\ Head(col) = "-" THEN Tail(col) ELSE col
      dot == IndexByte(body, ".") + 1
  IN  /\ dot > 1
      /\ Len(body) = dot + 6
      /\ \A n \in 1..Len(body) : n # dot => IsDigit(body[n])

\* C4: a rewritten payload has as many tab-separated columns as its
\* category's field list has names, no trailing tab, and column 0 is the epoch
\* seconds with 6 digits after the point.
C4_ColumnCount ==
  run = "first" =>
    \A r \in rewrote :
      /\ CountTabs(heap[r].Data) + 1 = Len(HeadersOf(proc, before[r].Data))
      /\ heap[r].Data[Len(heap[r].Data)] # "\t"
      /\ IsEpoch6(Column0(heap[r].Data))

\* The column the claim gives field h: '-' when absent, the plain decimal
\* integer for a number without fraction, 5 digits after the point for one with
\* a fraction, the default text otherwise.
ClaimedColumn(h, mp) ==
  IF h \notin DOMAIN mp THEN <<"-">>
  ELSE IF mp[h].k = "number"
       THEN IF mp[h].fp = <<>> THEN FmtInt(mp[h]) ELSE FmtFixed(mp[h], 5)
       ELSE FmtV(mp[h])

RECURSIVE ClaimedColumns(_, _)
ClaimedColumns(hs, mp) ==
  IF hs = <<>> THEN <<>>
  ELSE <<"\t">> \o ClaimedColumn(Head(hs), mp) \o ClaimedColumns(Tail(hs), mp)

\* C5: after column 0 a rewritten payload holds, for every field name from
\* index 1 on, the column the claim gives it.
C5_Columns ==
  run = "first" =>
    \A r \in rewrote :
      heap[r].Data =
        Column0(heap[r].Data)
          \o ClaimedColumns(Tail(HeadersOf(proc, before[r].Data)), DecodedMap(before[r].Data))

\* C6: a second Process changes no entry the first Process rewrote.
C6_SecondRunUntouched ==
  run = "again" => \A r \in rewrote : heap[r] = before[r]

\* C7: a constructed processor never holds tables that cover only some of the
\* categories.
C7_NoPartialRegistry ==
  pc = "idle" =>
    /\ DOMAIN proc.tagFields = NamesOf(proc.Prefix)
    /\ DOMAIN proc.tags = NamesOf(proc.Prefix)

\* C8: after NewCorelight(cfg, tagger) or Config(cfg, tagger) returned nil the
\* tag table holds, for every category, the tag the given tagger gave the
\* given prefix plus the category, NegotiateTag was called once per category on
\* that tagger, and Process uses that prefix.
C8_GivenPrefixAndTagger ==
  (pc = "idle" /\ caller \in {"NewCorelight", "Config"} /\ err = "nil") =>
    /\ proc.tags = [name \in NamesOf(argPrefix) |-> TagId(argTagger, name)]
    /\ calls = {<<argTagger, name>> : name \in NamesOf(argPrefix)}
    /\ ncalls = Cardinality(Categories)
    /\ proc.Prefix \in {x \in {argPrefix, defaultPrefix} : x # ""}
    /\ (argPrefix # "" => proc.Prefix = argPrefix)

C9_ConcurrentAsSequential ==
  (wpc # <<>> /\ \A w \in Workers : wpc[w] = "done") =>
    /\ heap = ProcessBatch(proc, ents, before).heap
    /\ proc = Constructed([type |-> "CorelightConfig", Prefix |-> ""], "tgA")

\* Both calls have returned and each rewrote an entry of its own.
C9_Witness ==
  /\ wpc # <<>>
  /\ \A w \in Workers : wpc[w] = "done"
  /\ heap[1] # before[1]
  /\ heap[3] # before[3]
============================================================================
